---- MODULE Spec2Model ----
(***************************************************************************)
(* Model of the note splitter plugin (src/src/main.ts): the                *)
(* "Split by delimiter" command callback and splitNoteByDelimiter, run     *)
(* against a vault (files, folders), a settings record, a clock and a      *)
(* notification sink.  Strings are sequences of one-character strings;     *)
(* "\n" is the newline character.                                          *)
(***************************************************************************)
EXTENDS Integers, Sequences, FiniteSets, TLC

(***************************************************************************)
(* Bounds of the model.                                                    *)
(***************************************************************************)
\* largest number of delimiter-separated segments of a source document
MaxSegs == 3
\* largest value the clock (Date.now()) takes
MaxClock == 1
\* number of distinct values crypto.randomUUID() returns
MaxUuid == 2
\* longest text given to the partitioner on its own
MaxTextLen == 5
\* longest configured delimiter given to the normalizer on its own
MaxDelimLen == 4

(***************************************************************************)
(* String primitives of the JavaScript runtime.                            *)
(***************************************************************************)
NL == "\n"

\* the characters String.prototype.trim removes (restricted to the alphabet)
WhiteSpace == {" ", NL}

\* s.startsWith(p) at offset k (1-based): p occurs in s at position k
OccursAt(s, p, k) ==
    /\ k + Len(p) - 1 <= Len(s)
    /\ \A j \in 1..Len(p) : s[k + j - 1] = p[j]

RECURSIVE TrimStart(_)
TrimStart(s) ==
    IF s # <<>> /\ Head(s) \in WhiteSpace THEN TrimStart(Tail(s)) ELSE s

RECURSIVE TrimEnd(_)
TrimEnd(s) ==
    IF s # <<>> /\ s[Len(s)] \in WhiteSpace
    THEN TrimEnd(SubSeq(s, 1, Len(s) - 1))
    ELSE s

\* String.prototype.trim
Trim(s) == TrimEnd(TrimStart(s))

\* String.prototype.split(sep) for a non-empty separator: the segments
\* between the non-overlapping occurrences of sep, found left to right
RECURSIVE SplitFrom(_, _, _, _)
SplitFrom(s, sep, k, cur) ==
    IF k > Len(s) THEN <<cur>>
    ELSE IF OccursAt(s, sep, k)
         THEN <<cur>> \o SplitFrom(s, sep, k + Len(sep), <<>>)
         ELSE SplitFrom(s, sep, k + 1, Append(cur, s[k]))

\* an empty separator splits between all characters
Split(s, sep) ==
    IF sep = <<>> THEN [k \in 1..Len(s) |-> <<s[k]>>] ELSE SplitFrom(s, sep, 1, <<>>)

\* .map((content) => content.trim())
RECURSIVE TrimAll(_)
TrimAll(xs) == IF xs = <<>> THEN <<>> ELSE <<Trim(Head(xs))>> \o TrimAll(Tail(xs))

\* .filter((content) => content !== "")
RECURSIVE DropEmpty(_)
DropEmpty(xs) ==
    IF xs = <<>> THEN <<>>
    ELSE (IF Head(xs) # <<>> THEN <<Head(xs)>> ELSE <<>>) \o DropEmpty(Tail(xs))

\* the replacement without the g flag: the first occurrence only
RECURSIVE ReplaceFirstEscapedNewline(_)
ReplaceFirstEscapedNewline(d) ==
    IF d = <<>> THEN <<>>
    ELSE IF Len(d) >= 2 /\ d[1] = "\\" /\ d[2] = "n"
         THEN <<NL>> \o SubSeq(d, 3, Len(d))
         ELSE <<Head(d)>> \o ReplaceFirstEscapedNewline(Tail(d))

\* delimiter.replace(/\\n/g, "\n"): one left-to-right pass that replaces
\* every backslash followed by n with one newline
RECURSIVE ReplaceEscapedNewlines(_)
ReplaceEscapedNewlines(d) ==
    IF d = <<>> THEN <<>>
    ELSE IF Len(d) >= 2 /\ d[1] = "\\" /\ d[2] = "n"
         THEN <<NL>> \o ReplaceEscapedNewlines(SubSeq(d, 3, Len(d)))
         ELSE <<Head(d)>> \o ReplaceEscapedNewlines(Tail(d))

SplitContentFilterFirst(dataWithoutFrontmatter, escapedDelimiter) ==
    TrimAll(DropEmpty(Split(dataWithoutFrontmatter, escapedDelimiter)))

\* splitContent of splitNoteByDelimiter: split, trim every segment, drop the
\* empty ones
SplitContent(dataWithoutFrontmatter, escapedDelimiter) ==
    DropEmpty(TrimAll(Split(dataWithoutFrontmatter, escapedDelimiter)))

\* Array.prototype.join
RECURSIVE Join(_, _)
Join(xs, sep) ==
    IF xs = <<>> THEN <<>>
    ELSE IF Len(xs) = 1 THEN xs[1]
    ELSE xs[1] \o sep \o Join(Tail(xs), sep)

\* String.prototype.includes
Includes(s, p) == \E k \in 1..(Len(s) + 1) : OccursAt(s, p, k)

\* the decimal digits of a natural number, as `${n}` renders it
Digit == <<"0", "1", "2", "3", "4", "5", "6", "7", "8", "9">>

RECURSIVE DigitsOf(_)
DigitsOf(n) ==
    IF n < 10 THEN <<Digit[n + 1]>>
    ELSE DigitsOf(n \div 10) \o <<Digit[(n % 10) + 1]>>

(***************************************************************************)
(* ./utils (imported at main.ts:2).                                        *)
(***************************************************************************)
\* the marker line that opens and closes a frontmatter block
Marker == <<"-", "-", "-">>

\* index of the first marker line after the first line, 0 when there is none
RECURSIVE ClosingMarker(_, _)
ClosingMarker(lines, k) ==
    IF k > Len(lines) THEN 0
    ELSE IF lines[k] = Marker THEN k
    ELSE ClosingMarker(lines, k + 1)

\* removeFrontmatterBlock: a block opened by a marker line at the very start
\* and closed by the next marker line is removed with both marker lines
removeFrontmatterBlock(data) ==
    LET lines == Split(data, <<NL>>)
        close == ClosingMarker(lines, 2)
    IN  IF lines[1] = Marker /\ close # 0
        THEN Join(SubSeq(lines, close + 1, Len(lines)), <<NL>>)
        ELSE data

\* characters that are invalid in a file name
InvalidFileNameChars == {"\\", "/", ":", "*", "?", "\"", "<", ">", "|", NL}

RECURSIVE StripInvalidChars(_)
StripInvalidChars(value) ==
    IF value = <<>> THEN <<>>
    ELSE (IF Head(value) \in InvalidFileNameChars THEN <<>> ELSE <<Head(value)>>)
             \o StripInvalidChars(Tail(value))

\* escapeInvalidFileNameChars: the invalid characters are stripped and the
\* remaining text is trimmed
escapeInvalidFileNameChars(value) == Trim(StripInvalidChars(value))

\* longest file name the storage system accepts
MaxFileNameLength == 255

\* trimForFileName: truncated so that name plus extension fits
trimForFileName(value, extension) ==
    LET room == MaxFileNameLength - Len(extension)
    IN  IF Len(value) > room THEN SubSeq(value, 1, room) ELSE value

(***************************************************************************)
(* Paths and names.                                                        *)
(***************************************************************************)
DotMd == <<".", "m", "d">>

SplitNotePrefix == <<"s", "p", "l", "i", "t", "-", "n", "o", "t", "e", "-">>

SplitConflictPrefix ==
    <<"S", "p", "l", "i", "t", " ", "c", "o", "n", "f", "l", "i", "c", "t", " ">>

\* the values of crypto.randomUUID()
Uuid(k) == <<"u">> \o DigitsOf(k)

RECURSIVE CollapseSlashes(_)
CollapseSlashes(p) ==
    IF Len(p) < 2 THEN p
    ELSE IF p[1] = "/" /\ p[2] = "/" THEN CollapseSlashes(Tail(p))
    ELSE <<p[1]>> \o CollapseSlashes(Tail(p))

StripSlashes(p) ==
    LET a == IF p # <<>> /\ Head(p) = "/" THEN Tail(p) ELSE p
    IN  IF a # <<>> /\ a[Len(a)] = "/" THEN SubSeq(a, 1, Len(a) - 1) ELSE a

\* normalizePath of the obsidian API: runs of slashes collapse to one slash,
\* a leading and a trailing slash are dropped, the empty path is the root
normalizePath(p) ==
    LET q == StripSlashes(CollapseSlashes(p))
    IN  IF q = <<>> THEN <<"/">> ELSE q

\* first line of a fragment: originalContent.split("\n")[0]
FirstLine(originalContent) == Split(originalContent, <<NL>>)[1]

FileNameClockOnly(originalContent, i, useContentAsTitle, t) ==
    IF useContentAsTitle
    THEN trimForFileName(escapeInvalidFileNameChars(FirstLine(originalContent)), DotMd)
    ELSE SplitNotePrefix \o DigitsOf(t)

\* fileName of fragment i (main.ts:111-117); t is the value of Date.now()
FileName(originalContent, i, useContentAsTitle, t) ==
    IF useContentAsTitle
    THEN trimForFileName(escapeInvalidFileNameChars(FirstLine(originalContent)), DotMd)
    ELSE SplitNotePrefix \o DigitsOf(t + i)

\* filePath of the first create (main.ts:119)
FilePath(folderPath, fileName) ==
    normalizePath(folderPath \o <<"/">> \o fileName \o DotMd)

\* newFilePath of the retry (main.ts:126)
NewFilePath(folderPath, uuid) ==
    folderPath \o <<"/">> \o SplitConflictPrefix \o uuid \o DotMd

\* updatedContent (main.ts:106-109)
UpdatedContent(originalContent, appendToSplitContent) ==
    IF Len(appendToSplitContent) > 0
    THEN originalContent \o appendToSplitContent
    ELSE originalContent

\* the absent value (null / undefined)
Null == <<"null">>

\* folderPath (main.ts:92-94): (saveFolderPath || file.parent?.path) ?? ""
FolderPath(saveFolderPath, parentPath) ==
    IF saveFolderPath # <<>> THEN saveFolderPath
    ELSE IF parentPath # Null THEN parentPath
    ELSE <<>>

(***************************************************************************)
(* Notifications and error messages.                                       *)
(***************************************************************************)
NoMarkdownNote == <<"Please open a markdown note.">>
NoFileFound == <<"No file found for this note.">>
NotEditingMode == <<"Please switch to editing mode to split this note.">>
NoDelimiter == <<"No delimiter set. Please set a delimiter in the settings.">>
NoContent == <<"No content to split.">>
OnlyOneSection == <<"Only one section of content found. Nothing to split.">>

\* the summary (main.ts:145-147)
Summary(filesCreated) ==
    <<"Split into ">> \o DigitsOf(filesCreated) \o <<" note">>
        \o (IF filesCreated > 1 THEN <<"s">> ELSE <<>>) \o <<".">>

\* `Error creating file: ${err.message}` (main.ts:132, 136)
ErrorCreating(message) == <<"Error creating file: ">> \o message

\* messages of the errors vault.create throws
FileExistsMessage == <<"File ", "already exists", ".">>
WriteFailedMessage == <<"write failed">>

\* err.message.includes("already exists") (main.ts:125)
IsAlreadyExists(message) == Includes(message, <<"already exists">>)

\* message of the error of a storage call on an item that is not there
NotFoundMessage == <<"not found">>

\* the outcome of a storage call that did not throw
NoError == <<>>

\* no notification: the checks passed
NoNotice == <<>>

PreconditionNoticeModeFirst(v) ==
    IF ~v.view THEN NoMarkdownNote
    ELSE IF v.mode # "source" THEN NotEditingMode
    ELSE IF ~v.file THEN NoFileFound
    ELSE NoNotice

\* the checks of the command callback (main.ts:33-48), in the order made
PreconditionNotice(v) ==
    IF ~v.view THEN NoMarkdownNote
    ELSE IF ~v.file THEN NoFileFound
    ELSE IF v.mode # "source" THEN NotEditingMode
    ELSE NoNotice

NoDelimiterSetUnchecked(escapedDelimiter) == FALSE

\* escapedDelimiter === "" (main.ts:63)
NoDelimiterSet(escapedDelimiter) == escapedDelimiter = <<>>

NoOpNoticeSplitsOne(dataWithoutFrontmatter, splitContent) ==
    IF dataWithoutFrontmatter = <<>> THEN NoContent
    ELSE IF Len(splitContent) = 0 THEN NoContent
    ELSE NoNotice

\* the early returns after the read (main.ts:71-89)
NoOpNotice(dataWithoutFrontmatter, splitContent) ==
    IF dataWithoutFrontmatter = <<>> THEN NoContent
    ELSE IF Len(splitContent) = 0 THEN NoContent
    ELSE IF Len(splitContent) = 1 THEN OnlyOneSection
    ELSE NoNotice

ShouldRetryNever(err) == FALSE

ShouldRetryOnAnyError(err) == err # NoError

\* the retry is made for this error of the first create (main.ts:125)
ShouldRetry(err) == IsAlreadyExists(err)

CountedAlways(filesCreated, err) == filesCreated + 1

CountedTwice(filesCreated, err) ==
    IF err = NoError THEN filesCreated + 2 ELSE filesCreated

\* filesCreated after a create that ended with err (main.ts:123, 129)
Counted(filesCreated, err) ==
    IF err = NoError THEN filesCreated + 1 ELSE filesCreated

ShouldDeleteOnPartialSuccess(filesCreated, total, deleteOriginalNote) ==
    filesCreated > 0 /\ deleteOriginalNote

\* the deletion decision (main.ts:141)
ShouldDelete(filesCreated, total, deleteOriginalNote) ==
    filesCreated = total /\ deleteOriginalNote

(***************************************************************************)
(* The vault, the source note and the inputs.                              *)
(***************************************************************************)
\* the note the command is run on: folder i, name a
ParentPath == <<"i">>
SourcePath == <<"i", "/", "a", ".", "m", "d">>

\* saveFolderPath when it is set: a folder that does not exist yet; when it
\* is empty the fragments go to the folder of the source
SaveFolder == <<"o">>

\* the items next to the source before the command runs
ExistingFiles == {ParentPath \o <<"/">> \o SplitNotePrefix \o <<"1">> \o DotMd}

\* text a document has between two delimiters: blank, a word, two lines the
\* first of which has no character valid in a file name
Segments == {<<" ">>, <<"a">>, <<"?", NL, "a">>}

DocSeparator == <<NL, "-", "-", "-", NL>>

Frontmatter == <<"-", "-", "-", NL, "k", NL, "-", "-", "-", NL>>

SegmentSeqs(most) == UNION {[1..n -> Segments] : n \in 0..most}

\* the documents: up to MaxSegs parts, the first of which may be a
\* frontmatter block
Documents ==
    {Join(segs, DocSeparator) : segs \in SegmentSeqs(MaxSegs)}
        \cup {Frontmatter \o Join(segs, DocSeparator) : segs \in SegmentSeqs(MaxSegs - 1)}

\* NoteSplitterSettings (main.ts:5-11)
Settings ==
    [saveFolderPath : {SaveFolder, <<>>},
     useContentAsTitle : BOOLEAN,
     delimiter : {<<>>, <<"\\", "n", "-", "-", "-", "\\", "n">>},
     appendToSplitContent : {<<>>, <<"!">>},
     deleteOriginalNote : BOOLEAN]

\* what getActiveViewOfType, view.file and view.getMode() return
Views == [view : BOOLEAN, file : BOOLEAN, mode : {"source", "preview"}]

\* invocations of the command
OpIds == {1, 2}

\* invocations that run in Spec: one at a time
Sequential == {1}

\* the folder of a path: the text before its last slash, the root if none
RECURSIVE FolderOf(_)
FolderOf(path) ==
    IF path = <<>> THEN <<"/">>
    ELSE IF path[Len(path)] = "/"
         THEN (IF Len(path) = 1 THEN <<"/">> ELSE SubSeq(path, 1, Len(path) - 1))
         ELSE FolderOf(SubSeq(path, 1, Len(path) - 1))

VARIABLES
    settings,   \* this.settings
    files,      \* the vault's files: path -> content
    folders,    \* the vault's folders
    now,        \* the clock Date.now() reads
    notices,    \* the notifications shown, in order
    ops,        \* per invocation: position and locals of the async function
    calls,      \* the storage calls made, in order
    vault0      \* the vault before the command

vars == <<settings, files, folders, now, notices, ops, calls, vault0>>

NoView == [view |-> FALSE, file |-> FALSE, mode |-> "preview"]

IdleOp ==
    [pc |-> "idle", view |-> NoView, escapedDelimiter |-> <<>>, splitContent |-> <<>>,
     folderPath |-> <<>>, i |-> 0, filesCreated |-> 0,
     updatedContent |-> <<>>, filePath |-> <<>>]

Init ==
    /\ settings \in Settings
    /\ \E doc \in Documents :
         files = [p \in {SourcePath} \cup ExistingFiles
                    |-> IF p = SourcePath THEN doc ELSE <<"x">>]
    /\ folders = {<<"/">>, ParentPath}
    /\ now = 0
    /\ notices = <<>>
    /\ ops = [o \in OpIds |-> IdleOp]
    /\ calls = <<>>
    /\ vault0 = [files |-> files, folders |-> folders]

Notify(o, text) == Append(notices, [op |-> o, text |-> text])

NotifyFailureSilently(o, err) == notices

\* the notification of a fragment that was not written (main.ts:132, 136)
NotifyFailure(o, err) == Notify(o, ErrorCreating(err))

\* the invocation ends with one notification and no storage call
EndWith(o, v, text) ==
    /\ ops' = [ops EXCEPT ![o].pc = "done", ![o].view = v]
    /\ notices' = Notify(o, text)
    /\ UNCHANGED <<settings, files, folders, now, calls, vault0>>

(***************************************************************************)
(* The command callback (main.ts:32-51) and splitNoteByDelimiter up to its *)
(* first await (main.ts:57-68).                                            *)
(***************************************************************************)
Command(o) ==
    /\ ops[o].pc = "idle"
    /\ \E v \in Views :
         IF PreconditionNotice(v) # NoNotice THEN EndWith(o, v, PreconditionNotice(v))
         ELSE LET escapedDelimiter == ReplaceEscapedNewlines(settings.delimiter)
              IN  IF NoDelimiterSet(escapedDelimiter) THEN EndWith(o, v, NoDelimiter)
                  ELSE /\ ops' = [ops EXCEPT ![o].pc = "read", ![o].view = v,
                                             ![o].escapedDelimiter = escapedDelimiter]
                       /\ calls' = Append(calls, [op |-> o, call |-> "cachedRead",
                                                   settings |-> settings])
                       /\ UNCHANGED <<settings, files, folders, now, notices, vault0>>

(***************************************************************************)
(* cachedRead resolves: main.ts:68-97, up to the await of createFolder.    *)
(***************************************************************************)
\* vault.cachedRead(file): the text at the path of the file; for a file that
\* was deleted in the meantime, the text the cache holds or a rejection
ReadResults ==
    IF SourcePath \in DOMAIN files
    THEN {[err |-> NoError, data |-> files[SourcePath]]}
    ELSE {[err |-> NoError, data |-> vault0.files[SourcePath]],
          [err |-> NotFoundMessage, data |-> <<>>]}

ReadDone(o) ==
    /\ ops[o].pc = "read"
    /\ \E r \in ReadResults :
         IF r.err # NoError
         THEN /\ ops' = [ops EXCEPT ![o].pc = "failed"]
              /\ UNCHANGED <<settings, files, folders, now, notices, calls, vault0>>
         ELSE LET data == r.data
                  dataWithoutFrontmatter == removeFrontmatterBlock(data)
                  splitContent == SplitContent(dataWithoutFrontmatter, ops[o].escapedDelimiter)
                  notice == NoOpNotice(dataWithoutFrontmatter, splitContent)
              IN  IF notice # NoNotice THEN EndWith(o, ops[o].view, notice)
                  ELSE /\ ops' = [ops EXCEPT ![o].pc = "mkdir",
                                             ![o].splitContent = splitContent,
                                             ![o].folderPath =
                                                 FolderPath(settings.saveFolderPath, ParentPath)]
                       /\ UNCHANGED <<settings, files, folders, now, notices, calls, vault0>>

(***************************************************************************)
(* The storage collaborator (vault.createFolder, vault.create,             *)
(* vault.delete): the errors a call may end with.                          *)
(***************************************************************************)

\* a vault.create that writes over the item at an existing path
CreateErrorsOverwriting(path) ==
    IF FolderOf(path) \notin folders THEN {WriteFailedMessage}
    ELSE {NoError, WriteFailedMessage}

\* vault.createFolder: an existing folder is an error, a new one may fail
CreateFolderErrors(path) ==
    IF path \in folders THEN {FileExistsMessage} ELSE {NoError, WriteFailedMessage}

\* vault.create: an existing path is an error and is left alone; a write into
\* a missing folder fails; any other write may fail
CreateErrors(path) ==
    IF path \in DOMAIN files THEN {FileExistsMessage}
    ELSE IF FolderOf(path) \notin folders THEN {WriteFailedMessage}
    ELSE {NoError, WriteFailedMessage}

\* vault.delete: the delete of an item may fail; the delete of an item
\* that is no longer there is rejected or does nothing
DeleteErrors ==
    IF SourcePath \in DOMAIN files THEN {NoError, WriteFailedMessage}
    ELSE {NoError, NotFoundMessage}

CreateCall(o, retry, err) ==
    [op |-> o, call |-> "create", i |-> ops[o].i, retry |-> retry,
     path |-> ops[o].filePath, body |-> ops[o].updatedContent, err |-> err]

\* the values Date.now() may return: the clock never goes back
ClockReadings == now..MaxClock

(***************************************************************************)
(* The synchronous code between the end of one fragment's attempt and the  *)
(* next await: the head of the loop body for fragment k (main.ts:103-122), *)
(* or, after the last fragment, the deletion decision and the summary      *)
(* (main.ts:141-147).  filesCreated, nts and cls are the counter, the      *)
(* notifications and the calls as the attempt left them.                   *)
(***************************************************************************)
Proceed(o, k, filesCreated, nts, cls) ==
    LET splitContent == ops[o].splitContent
    IN  IF k < Len(splitContent)
        THEN \E t \in (IF settings.useContentAsTitle THEN {now} ELSE ClockReadings) :
               LET originalContent == splitContent[k + 1]
                   fileName == FileName(originalContent, k, settings.useContentAsTitle, t)
               IN  /\ now' = t
                   /\ ops' = [ops EXCEPT
                                ![o].pc = "create",
                                ![o].i = k,
                                ![o].filesCreated = filesCreated,
                                ![o].updatedContent =
                                    UpdatedContent(originalContent,
                                                   settings.appendToSplitContent),
                                ![o].filePath = FilePath(ops[o].folderPath, fileName)]
                   /\ notices' = nts
                   /\ calls' = cls
        ELSE IF ShouldDelete(filesCreated, Len(splitContent), settings.deleteOriginalNote)
        THEN /\ ops' = [ops EXCEPT ![o].pc = "delete", ![o].i = k,
                                   ![o].filesCreated = filesCreated]
             /\ calls' = Append(cls, [op |-> o, call |-> "delete",
                                      present |-> SourcePath \in DOMAIN files])
             /\ notices' = nts
             /\ now' = now
        ELSE /\ ops' = [ops EXCEPT ![o].pc = "done", ![o].i = k,
                                   ![o].filesCreated = filesCreated]
             /\ notices' = Append(nts, [op |-> o, text |-> Summary(filesCreated)])
             /\ calls' = cls
             /\ now' = now

(***************************************************************************)
(* createFolder resolves (main.ts:96-100): every error is swallowed; the   *)
(* loop starts with fragment 0.                                            *)
(***************************************************************************)
FolderDone(o) ==
    /\ ops[o].pc = "mkdir"
    /\ \E err \in CreateFolderErrors(ops[o].folderPath) :
         /\ folders' = IF err = NoError THEN folders \cup {ops[o].folderPath} ELSE folders
         /\ Proceed(o, 0, 0, notices,
                    Append(calls, [op |-> o, call |-> "createFolder",
                                   path |-> ops[o].folderPath, err |-> err]))
    /\ UNCHANGED <<settings, files, vault0>>

(***************************************************************************)
(* The first create of a fragment resolves (main.ts:121-138).              *)
(***************************************************************************)
CreateDone(o) ==
    /\ ops[o].pc = "create"
    /\ \E err \in CreateErrors(ops[o].filePath) :
         LET cls == Append(calls, CreateCall(o, FALSE, err))
         IN  IF err = NoError
             THEN /\ files' = (ops[o].filePath :> ops[o].updatedContent) @@ files
                  /\ Proceed(o, ops[o].i + 1, Counted(ops[o].filesCreated, err), notices, cls)
             ELSE IF ShouldRetry(err)
             THEN /\ \E u \in 1..MaxUuid :
                       ops' = [ops EXCEPT
                                 ![o].pc = "retry",
                                 ![o].filePath = NewFilePath(ops[o].folderPath, Uuid(u))]
                  /\ calls' = cls
                  /\ UNCHANGED <<files, now, notices>>
             ELSE /\ files' = files
                  /\ Proceed(o, ops[o].i + 1, Counted(ops[o].filesCreated, err),
                             NotifyFailure(o, err), cls)
    /\ UNCHANGED <<settings, folders, vault0>>

(***************************************************************************)
(* The retry of a fragment resolves (main.ts:127-134).                     *)
(***************************************************************************)
RetryDone(o) ==
    /\ ops[o].pc = "retry"
    /\ \E err \in CreateErrors(ops[o].filePath) :
         LET cls == Append(calls, CreateCall(o, TRUE, err))
         IN  IF err = NoError
             THEN /\ files' = (ops[o].filePath :> ops[o].updatedContent) @@ files
                  /\ Proceed(o, ops[o].i + 1, Counted(ops[o].filesCreated, err), notices, cls)
             ELSE /\ files' = files
                  /\ Proceed(o, ops[o].i + 1, Counted(ops[o].filesCreated, err),
                             NotifyFailure(o, err), cls)
    /\ UNCHANGED <<settings, folders, vault0>>

(***************************************************************************)
(* vault.delete resolves (main.ts:142-147): the summary follows a          *)
(* successful delete; a rejected delete ends the function.                 *)
(***************************************************************************)
DeleteDone(o) ==
    /\ ops[o].pc = "delete"
    /\ \E err \in DeleteErrors :
         /\ calls' = Append(calls, [op |-> o, call |-> "deleted", err |-> err,
                                    removed |-> err = NoError /\ SourcePath \in DOMAIN files])
         /\ IF err = NoError
            THEN /\ files' = [p \in DOMAIN files \ {SourcePath} |-> files[p]]
                 /\ notices' = Notify(o, Summary(ops[o].filesCreated))
                 /\ ops' = [ops EXCEPT ![o].pc = "done"]
            ELSE /\ ops' = [ops EXCEPT ![o].pc = "failed"]
                 /\ UNCHANGED <<files, notices>>
    /\ UNCHANGED <<settings, folders, now, vault0>>

Next ==
    \E o \in Sequential :
        \/ Command(o)
        \/ ReadDone(o)
        \/ FolderDone(o)
        \/ CreateDone(o)
        \/ RetryDone(o)
        \/ DeleteDone(o)

Spec == Init /\ [][Next]_vars

(***************************************************************************)
(* The partitioner and the delimiter normalizer on their own: every text   *)
(* and delimiter up to a length, not only the documents of Init.           *)
(***************************************************************************)
\* all strings over chars of length at most most
Strings(chars, most) == UNION {[1..n -> chars] : n \in 0..most}

\* the scenario of the specification: A, B and C on lines separated by ---
ScenarioText ==
    <<"A", NL, "-", "-", "-", NL, "B", NL, "-", "-", "-", NL, "C">>

Texts == Strings({"a", " ", NL, "-"}, MaxTextLen) \cup {ScenarioText}

\* delimiters after normalization
EscapedDelimiters ==
    {<<"-">>, <<"-", "-">>, <<NL>>, <<"-", NL>>, <<"-", "-", "-">>}

\* delimiters as configured
RawDelimiters == Strings({"\\", "n", "-"}, MaxDelimLen)

DefaultSettings ==
    [saveFolderPath |-> SaveFolder, useContentAsTitle |-> FALSE,
     delimiter |-> <<"\\", "n">>, appendToSplitContent |-> <<>>,
     deleteOriginalNote |-> FALSE]

InitPartition ==
    /\ settings = DefaultSettings
    /\ \E text \in Texts : files = [p \in {SourcePath} |-> text]
    /\ folders = {<<"/">>, ParentPath}
    /\ now = 0
    /\ notices = <<>>
    /\ \E d \in EscapedDelimiters :
         ops = [o \in OpIds |-> [IdleOp EXCEPT !.escapedDelimiter = d]]
    /\ calls = <<>>
    /\ vault0 = [files |-> files, folders |-> folders]

\* main.ts:76-79 applied to the text and the delimiter
Partition ==
    /\ ops[1].pc = "idle"
    /\ ops' = [ops EXCEPT
                 ![1].pc = "partitioned",
                 ![1].splitContent =
                     SplitContent(files[SourcePath], ops[1].escapedDelimiter)]
    /\ UNCHANGED <<settings, files, folders, now, notices, calls, vault0>>

SpecPartition == InitPartition /\ [][Partition]_vars

InitNormalize ==
    /\ \E raw \in RawDelimiters : settings = [DefaultSettings EXCEPT !.delimiter = raw]
    /\ files = [p \in {SourcePath} |-> <<>>]
    /\ folders = {<<"/">>, ParentPath}
    /\ now = 0
    /\ notices = <<>>
    /\ ops = [o \in OpIds |-> IdleOp]
    /\ calls = <<>>
    /\ vault0 = [files |-> files, folders |-> folders]

\* main.ts:58-61 applied to the configured delimiter
Normalize ==
    /\ ops[1].pc = "idle"
    /\ ops' = [ops EXCEPT
                 ![1].pc = "normalized",
                 ![1].escapedDelimiter = ReplaceEscapedNewlines(settings.delimiter)]
    /\ UNCHANGED <<settings, files, folders, now, notices, calls, vault0>>

SpecNormalize == InitNormalize /\ [][Normalize]_vars

(***************************************************************************)
(* Two invocations on the same note: the callback does not await           *)
(* splitNoteByDelimiter (main.ts:50), so a second command may start while  *)
(* the first is suspended on a storage call.                               *)
(***************************************************************************)
\* the document of the overlapping invocations: two words
OverlapDocuments == {Join(<< <<"a">>, <<"a">> >>, DocSeparator)}

InitOverlap ==
    /\ Init
    /\ settings.deleteOriginalNote
    /\ settings.delimiter # <<>>
    /\ settings.appendToSplitContent = <<>>
    /\ files[SourcePath] \in OverlapDocuments

NextOverlap ==
    \E o \in OpIds :
        \/ Command(o)
        \/ ReadDone(o)
        \/ FolderDone(o)
        \/ CreateDone(o)
        \/ RetryDone(o)
        \/ DeleteDone(o)

SpecOverlap == InitOverlap /\ [][NextOverlap]_vars

(***************************************************************************)
(* The settings tab (./obsidian/note-splitter-settings-tab): the user      *)
(* changes one field of this.settings, in place, once, while an            *)
(* invocation is suspended on a storage call.                              *)
(***************************************************************************)
SettingsFields ==
    {"saveFolderPath", "useContentAsTitle", "delimiter", "appendToSplitContent",
     "deleteOriginalNote"}

Suspended(o) == ops[o].pc \in {"read", "mkdir", "create", "retry", "delete"}

ChangeSettings ==
    /\ \E o \in Sequential :
         /\ Suspended(o)
         /\ \A k \in DOMAIN calls :
              (calls[k].op = o /\ calls[k].call = "cachedRead")
                 => calls[k].settings = settings
    /\ \E s \in Settings :
         /\ Cardinality({f \in SettingsFields : s[f] # settings[f]}) = 1
         /\ settings' = s
    /\ UNCHANGED <<files, folders, now, notices, ops, calls, vault0>>

NextSettings == Next \/ ChangeSettings

SpecSettings == Init /\ [][NextSettings]_vars

(***************************************************************************)
(* Reading the log of storage calls and the notifications.                 *)
(***************************************************************************)
\* positions in calls of the creates of invocation o
Creates(o) == {k \in DOMAIN calls : calls[k].op = o /\ calls[k].call = "create"}

FirstCreates(o) == {k \in Creates(o) : ~calls[k].retry}

Retries(o) == {k \in Creates(o) : calls[k].retry}

Written(o) == {k \in Creates(o) : calls[k].err = NoError}

Deletes(o) == {k \in DOMAIN calls : calls[k].op = o /\ calls[k].call = "delete"}

\* positions of the calls of o after position k
Later(o, k) == {j \in DOMAIN calls : j > k /\ calls[j].op = o}

\* the call of o that follows position k, when there is one
Following(o, k) == CHOOSE j \in Later(o, k) : \A m \in Later(o, k) : j <= m

NoticesOf(o) == SelectSeq(notices, LAMBDA n : n.op = o)

\* number of fragments of invocation o
Total(o) == Len(ops[o].splitContent)

\* o has returned or thrown
Ended(o) == ops[o].pc \in {"done", "failed"}

SourceDeleted == SourcePath \notin DOMAIN files

\* the create at position k left its fragment unwritten: a failed retry, or
\* a failure of the first create that is not a name collision
FinalFailure(k) ==
    /\ calls[k].err # NoError
    /\ calls[k].retry \/ ~IsAlreadyExists(calls[k].err)

(***************************************************************************)
(* C1: the source is deleted only when every fragment was written and the  *)
(* delete setting is on; an invocation issues at most one delete, after    *)
(* the attempts of all its fragments have finished; with a failed fragment *)
(* or the setting off the source stays.                                    *)
(***************************************************************************)
DeleteOnlyOnFullSuccess ==
    /\ \A o \in OpIds : \A d \in Deletes(o) :
         /\ settings.deleteOriginalNote
         /\ ops[o].filesCreated = Total(o)
         /\ \A f \in 0..(Total(o) - 1) :
              \E k \in Written(o) : calls[k].i = f /\ k < d
         /\ \A k \in Creates(o) : k < d
         /\ ops[o].pc \notin {"create", "retry"}
         /\ Deletes(o) = {d}
    /\ SourceDeleted => \E o \in OpIds : Deletes(o) # {}
    /\ \A o \in OpIds :
         (~settings.deleteOriginalNote \/ \E k \in Creates(o) : FinalFailure(k))
            => Deletes(o) = {}

\* an invocation deleted the source after writing all its fragments, one of
\* them by the retry
SourceDeletedAfterFullSuccess ==
    /\ SourceDeleted
    /\ ops[1].pc = "done"
    /\ Total(1) >= 2
    /\ Retries(1) # {}

(***************************************************************************)
(* C2: a fragment whose derived path is taken, by an item that was there   *)
(* before or by an earlier fragment, is retried at another path; when the  *)
(* retry path is free and storage does not fail, the fragment is stored    *)
(* there and counted, and the item at the derived path is as it was.       *)
(***************************************************************************)
\* the first create at position k failed because its path was taken
Collision(k) ==
    /\ calls[k].call = "create"
    /\ ~calls[k].retry
    /\ IsAlreadyExists(calls[k].err)

\* the item at the path of call k is the one that was there at the call:
\* the item from before the command or the one an earlier fragment wrote
Untouched(k) ==
    LET path == calls[k].path
    IN  IF path \in DOMAIN files
        THEN \/ /\ path \in DOMAIN vault0.files
                /\ files[path] = vault0.files[path]
             \/ \E j \in 1..(k - 1) :
                  /\ calls[j].call = "create"
                  /\ calls[j].err = NoError
                  /\ calls[j].path = path
                  /\ files[path] = calls[j].body
        ELSE path = SourcePath /\ \E o \in OpIds : Deletes(o) # {}

CollisionRetrySucceeds ==
    /\ \A k \in DOMAIN calls : Collision(k) =>
         LET o == calls[k].op
         IN  /\ Untouched(k)
             /\ IF Later(o, k) = {}
                THEN ops[o].pc = "retry" /\ ops[o].i = calls[k].i
                                         /\ ops[o].filePath # calls[k].path
                ELSE LET r == calls[Following(o, k)]
                     IN  /\ r.call = "create" /\ r.retry /\ r.i = calls[k].i
                         /\ r.path # calls[k].path
                         /\ r.err = NoError =>
                              /\ r.path \in DOMAIN files
                              /\ files[r.path] = calls[k].body
    /\ \A o \in OpIds : ops[o].filesCreated = Cardinality(Written(o))

\* one invocation wrote two fragments by the retry: one whose path was taken
\* by an earlier fragment, one whose path was taken before the command
BothCollisionsRetried ==
    \E k1, k2 \in Retries(1) :
        /\ calls[k1].err = NoError
        /\ calls[k2].err = NoError
        /\ calls[k1 - 1].path \in DOMAIN vault0.files
        /\ calls[k2 - 1].path \notin DOMAIN vault0.files

(***************************************************************************)
(* C3: a fragment gets at most two creates; the second is made only after  *)
(* the first failed with "already exists", once, in the same folder and    *)
(* with the same body; when it fails too the count stays and the loop      *)
(* moves to the next fragment.                                             *)
(***************************************************************************)
AtMostOneRetry ==
    \A o \in OpIds :
        /\ \A k, j \in Creates(o) :
             (calls[k].i = calls[j].i /\ calls[k].retry = calls[j].retry) => k = j
        /\ \A k \in FirstCreates(o) :
             /\ calls[k].body = UpdatedContent(ops[o].splitContent[calls[k].i + 1],
                                               settings.appendToSplitContent)
             /\ FolderOf(calls[k].path) = ops[o].folderPath
        /\ \A r \in Retries(o) :
             \E k \in FirstCreates(o) :
                /\ k < r
                /\ Later(o, k) # {} /\ Following(o, k) = r
                /\ calls[k].i = calls[r].i
                /\ IsAlreadyExists(calls[k].err)
                /\ calls[r].body = calls[k].body
                /\ FolderOf(calls[r].path) = FolderOf(calls[k].path)
        /\ \A r \in Retries(o) : calls[r].err # NoError =>
             /\ ops[o].i > calls[r].i
             /\ Cardinality({k \in Written(o) : k < r}) =
                  Cardinality({k \in Written(o) : k <= r})
             /\ (calls[r].i + 1 < Total(o) /\ Later(o, r) # {}) =>
                  LET n == calls[Following(o, r)]
                  IN  n.call = "create" /\ ~n.retry /\ n.i = calls[r].i + 1
        /\ ops[o].filesCreated = Cardinality(Written(o))
        /\ ops[o].pc = "retry" =>
             \E k \in FirstCreates(o) :
                /\ Later(o, k) = {}
                /\ calls[k].i = ops[o].i
                /\ IsAlreadyExists(calls[k].err)
                /\ ops[o].updatedContent = calls[k].body

\* a retry failed and the next fragment was attempted after it
FailedRetryThenNextFragment ==
    \E r \in Retries(1) :
        /\ calls[r].err # NoError
        /\ Later(1, r) # {}
        /\ calls[Following(1, r)].call = "create"
        /\ calls[r].body # ops[1].splitContent[calls[r].i + 1]

(***************************************************************************)
(* C4: whatever the earlier writes did, every fragment gets its first      *)
(* create, in source order; a failure other than "already exists" is not   *)
(* retried and is not counted.                                             *)
(***************************************************************************)
\* the fragments whose first create has resolved, in the order of the calls
RECURSIVE FirstCreateOrder(_, _)
FirstCreateOrder(o, k) ==
    IF k > Len(calls) THEN <<>>
    ELSE (IF k \in FirstCreates(o) THEN <<calls[k].i>> ELSE <<>>)
             \o FirstCreateOrder(o, k + 1)

EveryFragmentAttempted ==
    \A o \in OpIds :
        /\ LET order == FirstCreateOrder(o, 1)
           IN  /\ \A n \in DOMAIN order : order[n] = n - 1
               /\ Len(order) <= Total(o)
               /\ (ops[o].pc \in {"delete", "done", "failed"} /\ Total(o) >= 2)
                     => Len(order) = Total(o)
               /\ ops[o].pc \in {"create", "retry"} =>
                     ops[o].i = (IF ops[o].pc = "create" THEN Len(order)
                                 ELSE Len(order) - 1)
        /\ \A k \in FirstCreates(o) :
             (calls[k].err # NoError /\ ~IsAlreadyExists(calls[k].err)) =>
                /\ ops[o].pc # "retry" \/ ops[o].i # calls[k].i
                /\ \A r \in Retries(o) : calls[r].i # calls[k].i
                /\ Cardinality({j \in Written(o) : calls[j].i = calls[k].i}) = 0
        /\ ops[o].filesCreated = Cardinality({calls[k].i : k \in Written(o)})

\* the first fragment failed outright, the second collided and its retry
\* failed, and the third was still written
ThirdWrittenAfterTwoFailures ==
    /\ ops[1].pc = "done"
    /\ Total(1) = 3
    /\ \E k \in FirstCreates(1) :
         calls[k].i = 0 /\ calls[k].err # NoError /\ ~IsAlreadyExists(calls[k].err)
    /\ \E r \in Retries(1) : calls[r].i = 1 /\ calls[r].err # NoError
    /\ \E k \in Written(1) : calls[k].i = 2

(***************************************************************************)
(* C5: an invocation that reached the write loop and has ended showed      *)
(* exactly one summary; it gives the number of fragments written and reads *)
(* "Split into 1 note." for one and "Split into N notes." for any other N. *)
(***************************************************************************)
SummaryAsClaimed(written) ==
    <<"Split into ">> \o DigitsOf(written)
        \o (IF written = 1 THEN <<" note">> ELSE <<" note", "s">>) \o <<".">>

OneSummaryPerOperation ==
    \A o \in OpIds : (Ended(o) /\ Total(o) >= 2) =>
        LET summaries == SelectSeq(NoticesOf(o), LAMBDA n : n.text[1] = "Split into ")
        IN  /\ Len(summaries) = 1
            /\ summaries[1].text = SummaryAsClaimed(Cardinality(Written(o)))

(***************************************************************************)
(* C6: a document that is empty after the frontmatter is removed, or has   *)
(* no fragment, ends with "No content to split." alone; a document with    *)
(* one fragment ends with "Only one section of content found. Nothing to   *)
(* split." alone; neither creates a folder or an item or deletes the       *)
(* source.                                                                 *)
(***************************************************************************)
\* the only effect of invocation o is the notification text
OnlyNotified(o, text) ==
    /\ Ended(o)
    /\ NoticesOf(o) = <<[op |-> o, text |-> text]>>
    /\ \A k \in DOMAIN calls : calls[k].op = o => calls[k].call = "cachedRead"
    /\ files = vault0.files
    /\ folders = vault0.folders

NoOpMakesNoMutation ==
    \A o \in OpIds :
        LET body == removeFrontmatterBlock(vault0.files[SourcePath])
            fragments == SplitContent(body, ReplaceEscapedNewlines(settings.delimiter))
        IN  (ops[o].pc \notin {"idle", "read"} /\ ops[o].escapedDelimiter # <<>>) =>
               /\ (body = <<>> \/ Len(fragments) = 0) => OnlyNotified(o, NoContent)
               /\ (body # <<>> /\ Len(fragments) = 1) => OnlyNotified(o, OnlyOneSection)
               /\ NoContent # OnlyOneSection

\* a document with frontmatter and one fragment next to a blank segment
\* ended with the one-section notification
OneSectionReported ==
    /\ ops[1].pc = "done"
    /\ NoticesOf(1) = <<[op |-> 1, text |-> OnlyOneSection]>>
    /\ OccursAt(vault0.files[SourcePath], Frontmatter, 1)
    /\ Len(Split(vault0.files[SourcePath], DocSeparator)) = 2

(***************************************************************************)
(* C7: with a delimiter that is empty after the escape substitution the    *)
(* invocation ends with the "No delimiter set" notification and nothing    *)
(* else: no read, no folder, no item, no delete, no retry.                 *)
(***************************************************************************)
PassedPreconditions(o) ==
    /\ ops[o].pc # "idle"
    /\ ops[o].view.view /\ ops[o].view.file /\ ops[o].view.mode = "source"

EmptyDelimiterDoesNothing ==
    \A o \in OpIds :
        (PassedPreconditions(o) /\ ReplaceEscapedNewlines(settings.delimiter) = <<>>) =>
            /\ Ended(o)
            /\ NoticesOf(o) = <<[op |-> o, text |-> NoDelimiter]>>
            /\ \A k \in DOMAIN calls : calls[k].op # o
            /\ files = vault0.files
            /\ folders = vault0.folders

EmptyDelimiterReported ==
    /\ PassedPreconditions(1)
    /\ settings.delimiter = <<>>
    /\ ops[1].pc = "done"
    /\ settings.deleteOriginalNote
    /\ Len(Split(vault0.files[SourcePath], DocSeparator)) = 3

(***************************************************************************)
(* C8: the command checks that a document is focused, then that it is in   *)
(* editing mode, then that it has a file; the first check that fails       *)
(* decides the notification, and nothing is started or mutated.            *)
(***************************************************************************)
\* invocation o was stopped with the notification text before the split
StoppedWith(o, text) ==
    /\ Ended(o)
    /\ NoticesOf(o) = <<[op |-> o, text |-> text]>>
    /\ \A k \in DOMAIN calls : calls[k].op # o
    /\ files = vault0.files
    /\ folders = vault0.folders

ChecksFocusModeFile ==
    \A o \in OpIds : ops[o].pc # "idle" =>
        LET v == ops[o].view
        IN  /\ ~v.view => StoppedWith(o, NoMarkdownNote)
            /\ (v.view /\ v.mode # "source") => StoppedWith(o, NotEditingMode)
            /\ (v.view /\ v.mode = "source" /\ ~v.file) => StoppedWith(o, NoFileFound)

(***************************************************************************)
(* C8 as amended: the command checks that a document is focused, then that *)
(* it has a file, then that it is in editing mode; the first check that    *)
(* fails decides the notification, the three notifications differ, and     *)
(* nothing is started or mutated.                                          *)
(***************************************************************************)
ChecksFocusFileMode ==
    /\ \A o \in OpIds : ops[o].pc # "idle" =>
         LET v == ops[o].view
         IN  /\ ~v.view => StoppedWith(o, NoMarkdownNote)
             /\ (v.view /\ ~v.file) => StoppedWith(o, NoFileFound)
             /\ (v.view /\ v.file /\ v.mode # "source") => StoppedWith(o, NotEditingMode)
    /\ Cardinality({NoMarkdownNote, NoFileFound, NotEditingMode}) = 3

\* a focused view without a file, not in editing mode: the file check decided
NoFileInPreview ==
    /\ ops[1].pc = "done"
    /\ ops[1].view.view /\ ~ops[1].view.file /\ ops[1].view.mode = "preview"
    /\ NoticesOf(1) = <<[op |-> 1, text |-> NoFileFound]>>

(***************************************************************************)
(* C9: in title mode a first line that is empty after the invalid          *)
(* characters are stripped and the rest is trimmed is replaced by the      *)
(* synthesized name; no create is made with an empty name.                 *)
(***************************************************************************)
EmptyTitleFallsBack ==
    \A o \in OpIds : \A k \in FirstCreates(o) :
        settings.useContentAsTitle =>
            LET originalContent == ops[o].splitContent[calls[k].i + 1]
                title == escapeInvalidFileNameChars(FirstLine(originalContent))
            IN  /\ calls[k].path # FilePath(ops[o].folderPath, <<>>)
                /\ title = <<>> =>
                     OccursAt(calls[k].path, SplitNotePrefix, Len(ops[o].folderPath) + 2)

(***************************************************************************)
(* C10: without title mode the paths of the first creates of one           *)
(* invocation differ pairwise, whatever non-decreasing values the clock    *)
(* returns, so a first create never finds its path taken by an earlier     *)
(* fragment of the same invocation.                                        *)
(***************************************************************************)
SynthesizedNamesDistinct ==
    ~settings.useContentAsTitle =>
        \A o \in OpIds :
            /\ \A k, j \in FirstCreates(o) : calls[k].path = calls[j].path => k = j
            /\ ops[o].pc = "create" =>
                 \A k \in FirstCreates(o) : calls[k].path # ops[o].filePath
            /\ \A k \in FirstCreates(o) : IsAlreadyExists(calls[k].err) =>
                 /\ calls[k].path \in DOMAIN vault0.files
                 /\ \A j \in Written(o) : calls[j].path # calls[k].path

\* three fragments got the names 1, 2 and 2 or more: the clock was read again
\* for the second fragment and had not advanced
ClockStoodStill ==
    /\ ~settings.useContentAsTitle
    /\ ops[1].pc = "done"
    /\ Total(1) = 3
    /\ \E k, j \in FirstCreates(1) :
         /\ calls[j].i = calls[k].i + 1
         /\ calls[k].path = FilePath(ops[1].folderPath, SplitNotePrefix \o <<"1">>)
         /\ calls[j].path = FilePath(ops[1].folderPath, SplitNotePrefix \o <<"2">>)

(***************************************************************************)
(* C11: the destination folder is ensured once, before any fragment is     *)
(* written; when its creation fails with "already exists" the writes go    *)
(* on; when it fails for another reason no fragment write is attempted.    *)
(***************************************************************************)
FolderCalls(o) == {k \in DOMAIN calls : calls[k].op = o /\ calls[k].call = "createFolder"}

FolderFailureIsFatal ==
    \A o \in OpIds :
        /\ Cardinality(FolderCalls(o)) <= 1
        /\ \A c \in Creates(o) : \E k \in FolderCalls(o) : k < c
        /\ \A k \in FolderCalls(o) :
             IF calls[k].err = NoError \/ IsAlreadyExists(calls[k].err)
             THEN ops[o].pc \in {"create", "retry", "delete", "done", "failed"}
             ELSE /\ Creates(o) = {}
                  /\ ops[o].pc \notin {"create", "retry"}

(***************************************************************************)
(* C12: for every text and non-empty delimiter the fragments are the       *)
(* trimmed texts of the delimiter-separated segments that are not blank,   *)
(* in the order of the segments; no fragment is empty or blank; A, B, C on *)
(* lines separated by --- give exactly A, B, C.                            *)
(***************************************************************************)
Blank(s) == \A k \in 1..Len(s) : s[k] \in WhiteSpace

\* s without its leading and trailing white space, for s that is not blank
Core(s) ==
    LET inked == {k \in 1..Len(s) : s[k] \notin WhiteSpace}
        first == CHOOSE k \in inked : \A m \in inked : k <= m
        last == CHOOSE k \in inked : \A m \in inked : m <= k
    IN  SubSeq(s, first, last)

\* where the delimiter d cuts the text: the occurrences of d that do not
\* overlap an earlier cut
Cuts(text, d) ==
    LET occurrences == {k \in 1..Len(text) : OccursAt(text, d, k)}
    IN  CHOOSE C \in SUBSET occurrences :
            \A k \in occurrences :
                k \in C <=> \A c \in C : c < k => c + Len(d) <= k

\* the segment that ends at the cut c, or at the end of the text when c is
\* past the end
SegmentBefore(text, d, C, c) ==
    LET earlier == {k \in C : k < c}
        from == IF earlier = {} THEN 1
                ELSE (CHOOSE k \in earlier : \A m \in earlier : m <= k) + Len(d)
    IN  SubSeq(text, from, c - 1)

PartitionIsTrimmedSegments ==
    ops[1].pc = "partitioned" =>
        LET text == files[SourcePath]
            d == ops[1].escapedDelimiter
            C == Cuts(text, d)
            ends == C \cup {Len(text) + 1}
            kept == {c \in ends : ~Blank(SegmentBefore(text, d, C, c))}
            fragments == ops[1].splitContent
        IN  /\ Len(fragments) = Cardinality(kept)
            /\ \A n \in 1..Len(fragments) :
                 /\ fragments[n] # <<>>
                 /\ ~Blank(fragments[n])
                 /\ \E c \in kept :
                      /\ Cardinality({e \in kept : e <= c}) = n
                      /\ fragments[n] = Core(SegmentBefore(text, d, C, c))
            /\ (text = ScenarioText /\ d = <<"-", "-", "-">>) =>
                 fragments = << <<"A">>, <<"B">>, <<"C">> >>

\* a text cut twice, with a blank segment between two segments that are kept
BlankSegmentDropped ==
    /\ ops[1].pc = "partitioned"
    /\ Len(ops[1].splitContent) = 2
    /\ Cardinality(Cuts(files[SourcePath], ops[1].escapedDelimiter)) = 2
    /\ Len(files[SourcePath]) = Len(ops[1].splitContent[1]) + Len(ops[1].splitContent[2])
                                  + 2 * Len(ops[1].escapedDelimiter) + 1

(***************************************************************************)
(* C13: the normalized delimiter is the configured one with every          *)
(* backslash followed by n replaced by one newline, every other character  *)
(* unchanged and in place; without that sequence it is unchanged.          *)
(***************************************************************************)
\* positions of the backslashes that are followed by n
Escapes(raw) == {k \in 1..(Len(raw) - 1) : raw[k] = "\\" /\ raw[k + 1] = "n"}

NormalizeReplacesEveryEscape ==
    ops[1].pc = "normalized" =>
        LET raw == settings.delimiter
            out == ops[1].escapedDelimiter
            E == Escapes(raw)
            \* the positions of raw that are not the n of an escape
            stay == {k \in 1..Len(raw) : (k - 1) \notin E}
        IN  /\ Len(out) = Cardinality(stay)
            /\ \A k \in stay :
                 out[Cardinality({m \in stay : m <= k})] =
                     (IF k \in E THEN NL ELSE raw[k])
            /\ E = {} => out = raw

\* a delimiter with two escapes and another character
TwoEscapesReplaced ==
    /\ ops[1].pc = "normalized"
    /\ Cardinality(Escapes(settings.delimiter)) = 2
    /\ Len(ops[1].escapedDelimiter) = 2
    /\ Len(settings.delimiter) = 4

(***************************************************************************)
(* C14: the written count is at most the number of fragments attempted,    *)
(* which is at most the number of fragments; a fragment is counted at most *)
(* once, by its first create or by its retry; the count is the number of   *)
(* items the invocation has created in storage.                            *)
(***************************************************************************)
\* the fragments of o for which a create has resolved
Attempted(o) == {calls[k].i : k \in Creates(o)}

\* the paths of the items o has created
CreatedBy(o) == {calls[k].path : k \in Written(o)}

CountIsItemsCreated ==
    /\ \A o \in OpIds :
         /\ ops[o].filesCreated <= Cardinality(Attempted(o))
         /\ Cardinality(Attempted(o)) <= Total(o)
         /\ Attempted(o) \subseteq 0..(Total(o) - 1)
         /\ \A k, j \in Written(o) : calls[k].i = calls[j].i => k = j
         /\ ops[o].pc \notin {"create", "retry"} =>
              ops[o].filesCreated = Cardinality(CreatedBy(o))
         /\ ops[o].pc \in {"create", "retry"} =>
              ops[o].filesCreated = Cardinality({k \in Written(o) : calls[k].i < ops[o].i})
         /\ \A k \in Written(o) :
              /\ calls[k].path \in DOMAIN files
              /\ calls[k].path \notin DOMAIN vault0.files
              /\ files[calls[k].path] = calls[k].body
    /\ DOMAIN files \ DOMAIN vault0.files = UNION {CreatedBy(o) : o \in OpIds}

\* the loop ended with one fragment written by its first create, one by its
\* retry and one not written
CountBelowTotal ==
    /\ ops[1].pc = "done"
    /\ Total(1) = 3
    /\ ops[1].filesCreated = 2
    /\ \E r \in Retries(1) : calls[r].err = NoError
    /\ \E k \in FirstCreates(1) : calls[k].err = NoError

(***************************************************************************)
(* C15: a fragment that is finally not written gives exactly one error     *)
(* notification, a fragment that is written none; once the loop is over    *)
(* the error notifications are as many as the fragments less the written   *)
(* count.                                                                  *)
(***************************************************************************)
\* the errors of the creates of o that left a fragment unwritten, in order
RECURSIVE FinalErrors(_, _)
FinalErrors(o, k) ==
    IF k > Len(calls) THEN <<>>
    ELSE (IF k \in Creates(o) /\ FinalFailure(k) THEN <<calls[k].err>> ELSE <<>>)
             \o FinalErrors(o, k + 1)

\* the error notifications of o, in order
ErrorNotices(o) ==
    SelectSeq(notices, LAMBDA n : n.op = o /\ \E err \in {FileExistsMessage, WriteFailedMessage} :
                                              n.text = ErrorCreating(err))

OneErrorNoticePerFailure ==
    \A o \in OpIds :
        LET errors == FinalErrors(o, 1)
            shown == ErrorNotices(o)
        IN  /\ Len(shown) = Len(errors)
            /\ \A n \in DOMAIN shown : shown[n].text = ErrorCreating(errors[n])
            /\ \A k, j \in Creates(o) :
                 (FinalFailure(k) /\ FinalFailure(j) /\ calls[k].i = calls[j].i) => k = j
            /\ \A k \in Written(o) : \A j \in Creates(o) :
                 calls[j].i = calls[k].i => ~FinalFailure(j)
            /\ (ops[o].pc \in {"delete", "done", "failed"} /\ FolderCalls(o) # {}) =>
                 Len(shown) = Total(o) - ops[o].filesCreated

\* the loop ended with two fragments not written: one failed outright, one
\* failed in its retry
TwoFailuresReported ==
    /\ ops[1].pc = "done"
    /\ Total(1) = 3
    /\ ops[1].filesCreated = 1
    /\ Len(ErrorNotices(1)) = 2
    /\ \E r \in Retries(1) : calls[r].err # NoError
    /\ \E k \in FirstCreates(1) : calls[k].err = WriteFailedMessage

(***************************************************************************)
(* C16: an invocation never changes a stored item: it creates the          *)
(* destination folder, creates items at paths that were free at the time   *)
(* of the create, and deletes the source; an item from before the command  *)
(* other than the source keeps its content, and the source is intact or    *)
(* deleted.                                                                *)
(***************************************************************************)
NeverOverwrites ==
    /\ \A p \in DOMAIN vault0.files :
         IF p \in DOMAIN files THEN files[p] = vault0.files[p]
         ELSE p = SourcePath /\ \E o \in OpIds : Deletes(o) # {} /\ ops[o].pc = "done"
    /\ \A k \in DOMAIN calls : (calls[k].call = "create" /\ calls[k].err = NoError) =>
         /\ calls[k].path \notin DOMAIN vault0.files
         /\ \A j \in 1..(k - 1) :
              (calls[j].call = "create" /\ calls[j].err = NoError)
                 => calls[j].path # calls[k].path
         /\ calls[k].path \in DOMAIN files
         /\ files[calls[k].path] = calls[k].body
    /\ \A p \in DOMAIN files \ DOMAIN vault0.files :
         \E k \in DOMAIN calls :
            calls[k].call = "create" /\ calls[k].err = NoError /\ calls[k].path = p
    /\ vault0.folders \subseteq folders
    /\ \A f \in folders \ vault0.folders :
         \E k \in DOMAIN calls :
            calls[k].call = "createFolder" /\ calls[k].err = NoError /\ calls[k].path = f

\* the source was deleted after a fragment found its path taken by an item
\* from before the command, which is still there
ExistingItemKeptSourceDeleted ==
    /\ ops[1].pc = "done"
    /\ SourceDeleted
    /\ \E k \in FirstCreates(1) :
         /\ calls[k].path \in DOMAIN vault0.files
         /\ calls[k].path # SourcePath
         /\ calls[k].body # vault0.files[calls[k].path]
    /\ Cardinality(DOMAIN files \ DOMAIN vault0.files) >= 2

(***************************************************************************)
(* C17: when two invocations on the same note overlap with the delete      *)
(* setting on, the source is removed at most once, and no invocation       *)
(* issues a delete when the source has already been deleted.               *)
(***************************************************************************)
\* positions in calls of the deletes that have resolved
Resolved == {k \in DOMAIN calls : calls[k].call = "deleted"}

SourceDeletedAtMostOnce ==
    /\ Cardinality({k \in Resolved : calls[k].removed}) <= 1
    /\ \A o \in OpIds : \A d \in Deletes(o) : calls[d].present

(***************************************************************************)
(* C18: an invocation works under the settings that held when it started:  *)
(* the destination folder, the suffix appended to every fragment, the      *)
(* naming mode of every fragment and the deletion decision are those of    *)
(* the start, whatever the settings become while it is suspended.          *)
(***************************************************************************)
\* positions in calls of the read that invocation o started with
Starts(o) == {k \in DOMAIN calls : calls[k].op = o /\ calls[k].call = "cachedRead"}

ConfigurationFixedAtStart ==
    \A o \in OpIds : \A k0 \in Starts(o) :
        LET start == calls[k0].settings
        IN  /\ FolderCalls(o) # {} =>
                 ops[o].folderPath = FolderPath(start.saveFolderPath, ParentPath)
            /\ \A k \in FirstCreates(o) :
                 LET originalContent == ops[o].splitContent[calls[k].i + 1]
                 IN  /\ calls[k].body =
                          UpdatedContent(originalContent, start.appendToSplitContent)
                     /\ \E t \in 0..MaxClock :
                          calls[k].path =
                              FilePath(ops[o].folderPath,
                                       FileName(originalContent, calls[k].i,
                                                start.useContentAsTitle, t))
            /\ Deletes(o) # {} => start.deleteOriginalNote
            /\ (Ended(o) /\ FolderCalls(o) # {} /\ start.deleteOriginalNote
                  /\ ops[o].filesCreated = Total(o)) => Deletes(o) # {}

====
